---- MODULE Spec2Model ----
(***************************************************************************)
(* Model of the PyAutoGUI tool gateway (src/pyautogui-mcp.py).             *)
(*                                                                         *)
(* The gateway is a flat catalogue of tool handlers.  Each handler calls   *)
(* the automation backend once (twice for a saved screenshot) and maps the *)
(* backend outcome to a result envelope.  The backend is external: every   *)
(* backend call is modelled as a nondeterministic choice among the         *)
(* outcomes it can produce (a value, a PyAutoGUIException subclass, or an  *)
(* exception of another class).                                            *)
(*                                                                         *)
(* Encodings                                                               *)
(*   Optional[T]   None is <<>>, a value v is <<v>>                        *)
(*   text that the code parses (colors, file names, window titles) is a    *)
(*   sequence of one-character strings; a file name is a sequence of       *)
(*   tokens, each the separator "/" or one separator-free component        *)
(*   f-string messages are tuples of their literal text and their values   *)
(***************************************************************************)
EXTENDS Integers, Sequences, FiniteSets, TLC

VARIABLES pc, call, world, result, files, cv2, FAILSAFE, PAUSE, inbox, active

vars == <<pc, call, world, result, files, cv2, FAILSAFE, PAUSE, inbox, active>>

\* ------------------------------------------------------------------------
\* Bounds of the model
\* ------------------------------------------------------------------------
MaxPathLen == 4
MaxPending == 2

\* ------------------------------------------------------------------------
\* Values
\* ------------------------------------------------------------------------
None == <<>>
Some(v) == <<v>>

Coords == {0, 7}
OptCoords == {None, Some(7)}
Deltas == {-3, 4}
Durations == {0, 2}
Buttons == {"left", "right"}
Keys == {"enter", "a"}
Texts == {"", "hello"}

\* Exception classes the backend can raise.  FailSafeException and
\* ImageNotFoundException derive from PyAutoGUIException; the others do not.
PyAutoGUIExceptionClasses == {"PyAutoGUIException", "FailSafeException", "ImageNotFoundException"}
OtherExceptionClasses == {"OSError", "ValueError", "NotImplementedError"}

Ok(v) == [out |-> "ok", val |-> v]
Exc(c) == [out |-> "exc", exc |-> c, text |-> <<"str", c>>]

\* Outcomes of an input-injection or query primitive that returns v.
Outcomes(vals) == {Ok(v) : v \in vals} \cup {Exc("PyAutoGUIException"), Exc("FailSafeException"), Exc("OSError")}

\* What a tool call hands back to the framework.
Returned(e) == [kind |-> "envelope", env |-> e]
Raised(o) == [kind |-> "raised", exc |-> o.exc]

\* ExceptPyAutoGUI that swallows the failsafe abort and reports success
ExceptPyAutoGUI_recovering(o) ==
    IF o.exc = "FailSafeException" THEN Returned([message |-> <<"recovered">>])
    ELSE IF o.exc \in PyAutoGUIExceptionClasses THEN Returned([error |-> o.text]) ELSE Raised(o)

\* `except pyautogui.PyAutoGUIException as e: return {"error": str(e)}`
ExceptPyAutoGUI(o) == IF o.exc \in PyAutoGUIExceptionClasses THEN Returned([error |-> o.text]) ELSE Raised(o)

Finish(t, a, w, r) ==
    /\ pc' = "returned"
    /\ call' = [tool |-> t, args |-> a]
    /\ world' = w
    /\ result' = r
    /\ active' = active - 1
    /\ UNCHANGED <<cv2, FAILSAFE, PAUSE, inbox>>

\* ------------------------------------------------------------------------
\* Startup
\* ------------------------------------------------------------------------
Init ==
    /\ pc = "idle"
    /\ call = [tool |-> "none"]
    /\ world = [out |-> "none"]
    /\ result = [kind |-> "none"]
    /\ files = {}
    /\ cv2 \in BOOLEAN
    /\ FAILSAFE = TRUE
    /\ PAUSE = 1
    /\ inbox = 0
    /\ active = 0

\* ------------------------------------------------------------------------
\* Dispatch of incoming calls (server.run)
\* ------------------------------------------------------------------------
\* A caller sends a tool call; it waits in the transport until the gateway
\* takes it up.  Calls may arrive while a handler is running.
Receive ==
    /\ inbox + active < MaxPending
    /\ inbox' = inbox + 1
    /\ UNCHANGED <<pc, call, world, result, files, cv2, FAILSAFE, PAUSE, active>>

\* A dispatcher that hands a call to a worker while another handler runs
LoopFree_threaded == pc \in {"idle", "running"}

\* The handlers are plain synchronous functions run by the serving loop: it
\* takes up a call only when no handler is running and the previous result
\* has been handed back.
LoopFree == pc = "idle"

\* The handler of the next waiting call is entered; its backend operation
\* is in progress until the tool's action completes it.
Dispatch ==
    /\ LoopFree
    /\ inbox > 0
    /\ pc' = "running"
    /\ inbox' = inbox - 1
    /\ active' = active + 1
    /\ UNCHANGED <<call, world, result, files, cv2, FAILSAFE, PAUSE>>

\* ------------------------------------------------------------------------
\* Mouse control tools
\* ------------------------------------------------------------------------
move_mouse ==
    /\ pc = "running"
    /\ \E x \in Coords, y \in Coords, duration \in Durations, o \in Outcomes({None}) :
           /\ Finish("move_mouse", [x |-> x, y |-> y, duration |-> duration], o,
                     IF o.out = "ok"
                     THEN Returned([x |-> x, y |-> y, message |-> <<"Mouse moved to", x, y>>])
                     ELSE ExceptPyAutoGUI(o))
           /\ UNCHANGED files

move_mouse_relative ==
    /\ pc = "running"
    /\ \E dx \in Deltas, dy \in Deltas, duration \in Durations, o \in Outcomes({None}) :
           /\ Finish("move_mouse_relative", [dx |-> dx, dy |-> dy, duration |-> duration], o,
                     IF o.out = "ok"
                     THEN Returned([dx |-> dx, dy |-> dy, message |-> <<"Mouse moved relative by", dx, dy>>])
                     ELSE ExceptPyAutoGUI(o))
           /\ UNCHANGED files

click ==
    /\ pc = "running"
    /\ \E x \in OptCoords, y \in OptCoords, clicks \in {1, 2}, button \in Buttons, o \in Outcomes({None}) :
           /\ Finish("click", [x |-> x, y |-> y, clicks |-> clicks, interval |-> 0, button |-> button], o,
                     IF o.out = "ok"
                     THEN Returned([x |-> x, y |-> y, clicks |-> clicks, button |-> button,
                                    message |-> <<"Clicked", button, clicks,
                                                  IF x # None /\ y # None THEN <<"at", x, y>>
                                                  ELSE <<"at current mouse position">> >>])
                     ELSE ExceptPyAutoGUI(o))
           /\ UNCHANGED files

double_click ==
    /\ pc = "running"
    /\ \E x \in OptCoords, y \in OptCoords, button \in Buttons, o \in Outcomes({None}) :
           /\ Finish("double_click", [x |-> x, y |-> y, button |-> button], o,
                     IF o.out = "ok"
                     THEN Returned([x |-> x, y |-> y, button |-> button, message |-> <<"Double-clicked", button>>])
                     ELSE ExceptPyAutoGUI(o))
           /\ UNCHANGED files

right_click ==
    /\ pc = "running"
    /\ \E x \in OptCoords, y \in OptCoords, o \in Outcomes({None}) :
           /\ Finish("right_click", [x |-> x, y |-> y], o,
                     IF o.out = "ok"
                     THEN Returned([x |-> x, y |-> y, message |-> <<"Right-clicked">>])
                     ELSE ExceptPyAutoGUI(o))
           /\ UNCHANGED files

drag_to ==
    /\ pc = "running"
    /\ \E x \in Coords, y \in Coords, duration \in Durations, button \in Buttons, o \in Outcomes({None}) :
           /\ Finish("drag_to", [x |-> x, y |-> y, duration |-> duration, button |-> button], o,
                     IF o.out = "ok"
                     THEN Returned([x |-> x, y |-> y, duration |-> duration, message |-> <<"Dragged to", x, y>>])
                     ELSE ExceptPyAutoGUI(o))
           /\ UNCHANGED files

drag_relative ==
    /\ pc = "running"
    /\ \E dx \in Deltas, dy \in Deltas, duration \in Durations, button \in Buttons, o \in Outcomes({None}) :
           /\ Finish("drag_relative", [dx |-> dx, dy |-> dy, duration |-> duration, button |-> button], o,
                     IF o.out = "ok"
                     THEN Returned([dx |-> dx, dy |-> dy, message |-> <<"Dragged relative by", dx, dy>>])
                     ELSE ExceptPyAutoGUI(o))
           /\ UNCHANGED files

scroll ==
    /\ pc = "running"
    /\ \E clicks \in {-1, 3}, x \in OptCoords, y \in OptCoords, o \in Outcomes({None}) :
           /\ Finish("scroll", [clicks |-> clicks, x |-> x, y |-> y], o,
                     IF o.out = "ok"
                     THEN Returned([clicks |-> clicks, x |-> x, y |-> y, message |-> <<"Scrolled", clicks>>])
                     ELSE ExceptPyAutoGUI(o))
           /\ UNCHANGED files

get_mouse_position ==
    /\ pc = "running"
    /\ \E o \in Outcomes(Coords \X Coords) :
           /\ Finish("get_mouse_position", <<>>, o,
                     IF o.out = "ok"
                     THEN Returned([x |-> o.val[1], y |-> o.val[2]])
                     ELSE ExceptPyAutoGUI(o))
           /\ UNCHANGED files

\* ------------------------------------------------------------------------
\* Keyboard tools
\* ------------------------------------------------------------------------
type_text ==
    /\ pc = "running"
    /\ \E text \in Texts, interval \in Durations, o \in Outcomes({None}) :
           /\ Finish("type_text", [text |-> text, interval |-> interval], o,
                     IF o.out = "ok"
                     THEN Returned([text |-> text, message |-> <<"Typed text:", text>>])
                     ELSE ExceptPyAutoGUI(o))
           /\ UNCHANGED files

press_key ==
    /\ pc = "running"
    /\ \E key \in Keys, o \in Outcomes({None}) :
           /\ Finish("press_key", [key |-> key], o,
                     IF o.out = "ok"
                     THEN Returned([key |-> key, message |-> <<"Pressed key:", key>>])
                     ELSE ExceptPyAutoGUI(o))
           /\ UNCHANGED files

key_down ==
    /\ pc = "running"
    /\ \E key \in Keys, o \in Outcomes({None}) :
           /\ Finish("key_down", [key |-> key], o,
                     IF o.out = "ok"
                     THEN Returned([key |-> key, message |-> <<"Key held down:", key>>])
                     ELSE ExceptPyAutoGUI(o))
           /\ UNCHANGED files

key_up ==
    /\ pc = "running"
    /\ \E key \in Keys, o \in Outcomes({None}) :
           /\ Finish("key_up", [key |-> key], o,
                     IF o.out = "ok"
                     THEN Returned([key |-> key, message |-> <<"Key released:", key>>])
                     ELSE ExceptPyAutoGUI(o))
           /\ UNCHANGED files

hotkey ==
    /\ pc = "running"
    /\ \E keys \in {<<>>, <<"ctrl", "c">>}, o \in Outcomes({None}) :
           /\ Finish("hotkey", [keys |-> keys], o,
                     IF o.out = "ok"
                     THEN Returned([keys |-> keys, message |-> <<"Pressed hotkey:", keys>>])
                     ELSE ExceptPyAutoGUI(o))
           /\ UNCHANGED files

\* ------------------------------------------------------------------------
\* Text helpers (str.lstrip, str.strip, str.split, int)
\* ------------------------------------------------------------------------
HexLower == <<"0", "1", "2", "3", "4", "5", "6", "7", "8", "9", "a", "b", "c", "d", "e", "f">>
HexUpper == <<"0", "1", "2", "3", "4", "5", "6", "7", "8", "9", "A", "B", "C", "D", "E", "F">>

IsHexDigit(c) == \E i \in 1..16 : HexLower[i] = c \/ HexUpper[i] = c
HexVal(c) == (CHOOSE i \in 1..16 : HexLower[i] = c \/ HexUpper[i] = c) - 1
IsDecDigit(c) == \E i \in 1..10 : HexLower[i] = c
DecVal(c) == (CHOOSE i \in 1..10 : HexLower[i] = c) - 1

RECURSIVE LStrip(_, _)
LStrip(s, chars) == IF s # <<>> /\ Head(s) \in chars THEN LStrip(Tail(s), chars) ELSE s

RECURSIVE RStrip(_, _)
RStrip(s, chars) ==
    IF s # <<>> /\ s[Len(s)] \in chars THEN RStrip(SubSeq(s, 1, Len(s) - 1), chars) ELSE s

Strip(s, chars) == RStrip(LStrip(s, chars), chars)

\* s.split(sep): the list of the pieces between the separators
RECURSIVE SplitFrom(_, _, _)
SplitFrom(s, sep, piece) ==
    IF s = <<>> THEN <<piece>>
    ELSE IF Head(s) = sep THEN <<piece>> \o SplitFrom(Tail(s), sep, <<>>)
    ELSE SplitFrom(Tail(s), sep, Append(piece, Head(s)))

Split(s, sep) == SplitFrom(s, sep, <<>>)

RECURSIVE DigitsValue(_, _, _)
DigitsValue(s, base, acc) ==
    IF s = <<>> THEN acc
    ELSE DigitsValue(Tail(s), base, acc * base + (IF base = 16 THEN HexVal(Head(s)) ELSE DecVal(Head(s))))

\* int(s, base): surrounding blanks and one sign are accepted; None stands
\* for the ValueError int raises.
ParseInt(s, base) ==
    LET t == Strip(s, {" "})
        signed == t # <<>> /\ Head(t) \in {"+", "-"}
        d == IF signed THEN Tail(t) ELSE t
        allDigits == \A i \in 1..Len(d) : IF base = 16 THEN IsHexDigit(d[i]) ELSE IsDecDigit(d[i])
    IN  IF d = <<>> \/ ~allDigits THEN None
        ELSE IF signed /\ Head(t) = "-" THEN Some(0 - DigitsValue(d, base, 0))
        ELSE Some(DigitsValue(d, base, 0))

\* ------------------------------------------------------------------------
\* File names (os.path.basename, os.path.join on a POSIX host)
\* ------------------------------------------------------------------------
Components == {"..", ".", "etc", "passwd"}

screenshots_dir == <<"screenshots">>

Extend(p) ==
    {Append(p, "/")} \cup
    (IF p = <<>> \/ p[Len(p)] = "/" THEN {Append(p, c) : c \in Components} ELSE {})

RECURSIVE PathsOfLen(_)
PathsOfLen(n) == IF n = 0 THEN {<<>>} ELSE UNION {Extend(p) : p \in PathsOfLen(n - 1)}

\* the spec's example, ../../etc/passwd
TraversalExample == <<"..", "/", "..", "/", "etc", "/", "passwd">>

Filenames == UNION {PathsOfLen(n) : n \in 0..MaxPathLen} \cup {TraversalExample}

\* p.rfind("/") + 1
AfterLastSep(p) == IF \E i \in 1..Len(p) : p[i] = "/"
                   THEN (CHOOSE i \in 1..Len(p) : p[i] = "/" /\ \A j \in (i + 1)..Len(p) : p[j] # "/") + 1
                   ELSE 1

basename(p) == SubSeq(p, AfterLastSep(p), Len(p))

join(a, b) ==
    IF b # <<>> /\ Head(b) = "/" THEN b
    ELSE IF a = <<>> \/ a[Len(a)] = "/" THEN a \o b
    ELSE a \o <<"/">> \o b

\* The path names the screenshots directory itself or one of its ancestors,
\* or nothing: the imaging library cannot create a file there.
NamesDirectory(p) == p = <<>> \/ p[Len(p)] \in {"/", ".", ".."}

DirectChildOfScreenshots(p) ==
    /\ Len(p) = 3
    /\ p[1] = "screenshots"
    /\ p[2] = "/"
    /\ p[3] \notin {"/", ".", ".."}

\* ------------------------------------------------------------------------
\* Screen capture tools
\* ------------------------------------------------------------------------
GoodRegion == <<0, 0, 4, 4>>
BadRegion == <<1, 2>>
Regions == {None, Some(GoodRegion), Some(BadRegion)}

\* pyautogui.screenshot(region=region): a region that is not four numbers
\* cannot be captured.
CaptureOutcomes(region) ==
    IF region # None /\ Len(region[1]) # 4 THEN {Exc("ValueError")}
    ELSE {Ok("img"), Exc("PyAutoGUIException"), Exc("OSError")}

\* img.save(save_path)
SaveOutcomes(p) ==
    (IF NamesDirectory(p) THEN {} ELSE {Ok(None)}) \cup {Exc("OSError"), Exc("ValueError")}

safe_filename(filename) == basename(filename)

save_path_of(filename) == join(screenshots_dir, safe_filename(filename))

screenshot ==
    /\ pc = "running"
    /\ \E filename \in {None} \cup {Some(f) : f \in Filenames}, region \in Regions :
       \E o \in CaptureOutcomes(region) :
           LET a == [filename |-> filename, region |-> region] IN
           IF o.out # "ok"
           THEN /\ Finish("screenshot", a, [out |-> o.out, capture |-> o, save |-> None, saveTarget |-> None],
                          ExceptPyAutoGUI(o))
                /\ UNCHANGED files
           ELSE IF filename = None
           THEN /\ Finish("screenshot", a, [out |-> "ok", capture |-> o, save |-> None, saveTarget |-> None],
                          Returned([message |-> <<"Screenshot taken">>, region |-> region,
                                    image_base64 |-> <<"b64", "PNG", o.val>>]))
                /\ UNCHANGED files
           ELSE LET save_path == save_path_of(filename[1]) IN
                \E s \in SaveOutcomes(save_path) :
                   /\ Finish("screenshot", a,
                             [out |-> s.out, capture |-> o, save |-> Some(s), saveTarget |-> Some(save_path)],
                             IF s.out = "ok"
                             THEN Returned([filename |-> save_path, region |-> region,
                                            message |-> <<"Screenshot saved to", save_path>>])
                             ELSE ExceptPyAutoGUI(s))
                   /\ files' = IF s.out = "ok" THEN files \cup {save_path} ELSE files

DefaultConfidence == 90
Confidences == {DefaultConfidence, 100}
Images == {"needle.png"}
Boxes == {[left |-> 1, top |-> 2, width |-> 3, height |-> 4]}
Points == {[x |-> 2, y |-> 4]}

\* pyautogui.locateOnScreen / locateCenterOnScreen.  `present` says whether
\* the image is on the screen.  Without OpenCV the backend refuses any call
\* that passes a confidence (the startup warning of the gateway says so).
\* An absent image is signalled by None or by ImageNotFoundException,
\* depending on the backend version.
LocateOutcomes(opencv, confidence, present, hits) ==
    IF ~opencv /\ confidence # None THEN {Exc("NotImplementedError"), Exc("OSError")}
    ELSE (IF present THEN {Ok(Some(h)) : h \in hits} ELSE {Ok(None), Exc("ImageNotFoundException")})
         \cup {Exc("OSError"), Exc("PyAutoGUIException")}

\* `except Exception as e:` of the two locate tools
locate_failure(o) ==
    Returned([found |-> FALSE, error |-> o.text, message |-> <<"Error finding image:", o.text>>])

locate_on_screen ==
    /\ pc = "running"
    /\ \E image_path \in Images, region \in {None, Some(GoodRegion)}, confidence \in Confidences,
          present \in BOOLEAN :
       \E o \in LocateOutcomes(cv2, Some(confidence), present, Boxes) :
           /\ Finish("locate_on_screen",
                     [image_path |-> image_path, region |-> region, confidence |-> confidence],
                     [out |-> o.out, backend |-> o, present |-> present],
                     IF o.out = "ok"
                     THEN IF o.val # None
                          THEN Returned([found |-> TRUE, left |-> o.val[1].left, top |-> o.val[1].top,
                                         width |-> o.val[1].width, height |-> o.val[1].height,
                                         message |-> <<"Found image at", o.val[1].left, o.val[1].top>>])
                          ELSE Returned([found |-> FALSE, message |-> <<"Image not found on screen">>])
                     ELSE locate_failure(o))
           /\ UNCHANGED files

locate_center_on_screen ==
    /\ pc = "running"
    /\ \E image_path \in Images, region \in {None, Some(GoodRegion)}, confidence \in Confidences,
          present \in BOOLEAN :
       \E o \in LocateOutcomes(cv2, Some(confidence), present, Points) :
           /\ Finish("locate_center_on_screen",
                     [image_path |-> image_path, region |-> region, confidence |-> confidence],
                     [out |-> o.out, backend |-> o, present |-> present],
                     IF o.out = "ok"
                     THEN IF o.val # None
                          THEN Returned([found |-> TRUE, x |-> o.val[1].x, y |-> o.val[1].y,
                                         message |-> <<"Found image center at", o.val[1].x, o.val[1].y>>])
                          ELSE Returned([found |-> FALSE, message |-> <<"Image not found on screen">>])
                     ELSE locate_failure(o))
           /\ UNCHANGED files

\* ------------------------------------------------------------------------
\* Pixel colors
\* ------------------------------------------------------------------------
ColorChannels == {0, 245, 255}
PixelChannels == {0, 10, 255}
Pixels == PixelChannels \X PixelChannels \X PixelChannels
Tolerances == {0, 9, 10}

Hex2(n, digits) == <<digits[(n \div 16) + 1], digits[(n % 16) + 1]>>

RECURSIVE DecStr(_)
DecStr(n) == IF n < 10 THEN <<HexLower[n + 1]>> ELSE DecStr(n \div 10) \o <<HexLower[(n % 10) + 1]>>

\* The two textual forms of a color: #RRGGBB and (r, g, b)
HexFormat(t, digits) == <<"#">> \o Hex2(t[1], digits) \o Hex2(t[2], digits) \o Hex2(t[3], digits)
TupleFormat(t) == <<"(">> \o DecStr(t[1]) \o <<",", " ">> \o DecStr(t[2]) \o <<",", " ">> \o DecStr(t[3]) \o <<")">>

ColorTriples == ColorChannels \X ColorChannels \X ColorChannels

WellFormedColors ==
    {HexFormat(t, HexUpper) : t \in ColorTriples} \cup {HexFormat(t, HexLower) : t \in ColorTriples}
    \cup {TupleFormat(t) : t \in ColorTriples}

OtherColors == {
    <<"n", "o", "t", "a", "c", "o", "l", "o", "r">>,
    <<"#", "#", "F", "F", "0", "0", "0", "0">>,
    <<"(", "1", ",", "2", ",", "3">>,
    <<"(", "3", "0", "0", ",", " ", "0", ",", " ", "0", ")">>,
    <<"#", "F", "F", "0", "0">>,
    <<"#", "G", "G", "0", "0", "0", "0">>,
    <<"#", "+", "F", "0", "0", "0", "0">>,
    <<"(", "1", ",", "2", ")">>,
    <<"(", "a", ",", "b", ",", "c", ")">>,
    <<"(", "-", "1", ",", "0", ",", "0", ")">>,
    <<"F", "F", "0", "0", "0", "0">>,
    <<"#">>,
    <<>> }

ColorStrings == WellFormedColors \cup OtherColors

\* parse_hex with the last slice taken at the wrong offset
parse_hex_wrong_offset(hex_color) ==
    <<ParseInt(SubSeq(hex_color, 1, 2), 16), ParseInt(SubSeq(hex_color, 3, 4), 16),
      ParseInt(SubSeq(hex_color, 3, 4), 16)>>

\* tuple(int(hex_color[i:i+2], 16) for i in (0, 2, 4))
parse_hex(hex_color) ==
    <<ParseInt(SubSeq(hex_color, 1, 2), 16), ParseInt(SubSeq(hex_color, 3, 4), 16),
      ParseInt(SubSeq(hex_color, 5, 6), 16)>>

\* tuple(int(c.strip()) for c in color_values)
parse_values(color_values) ==
    <<ParseInt(color_values[1], 10), ParseInt(color_values[2], 10), ParseInt(color_values[3], 10)>>

Parsed(ch) ==
    IF \E i \in 1..3 : ch[i] = None
    THEN [ok |-> FALSE, text |-> <<"invalid literal for int()">>]
    ELSE [ok |-> TRUE, rgb |-> <<ch[1][1], ch[2][1], ch[3][1]>>]

\* The color parsing of pixel_matches_color: rgb_tuple, or the ValueError
parse_color(color) ==
    IF color # <<>> /\ Head(color) = "#"
    THEN LET hex_color == LStrip(color, {"#"}) IN
         IF Len(hex_color) = 6 THEN Parsed(parse_hex(hex_color))
         ELSE [ok |-> FALSE, text |-> <<"Hex color must be in #RRGGBB format.">>]
    ELSE IF color # <<>> /\ Head(color) = "("
    THEN LET color_values == Split(Strip(color, {"(", ")", " "}), ",") IN
         IF Len(color_values) = 3 THEN Parsed(parse_values(color_values))
         ELSE [ok |-> FALSE, text |-> <<"RGB color must be a tuple/list of 3 integers.">>]
    ELSE [ok |-> FALSE, text |-> <<"Invalid color format. Use '#RRGGBB' or '(R, G, B)'.">>]

Abs(n) == IF n < 0 THEN 0 - n ELSE n

\* pyautogui.pixelMatchesColor on a screen whose pixel at (x, y) is pix
pixelMatchesColor(pix, expectedRGBColor, tolerance) ==
    \A i \in 1..3 : Abs(pix[i] - expectedRGBColor[i]) <= tolerance

get_pixel_color ==
    /\ pc = "running"
    /\ \E x \in Coords, y \in Coords, o \in Outcomes(Pixels) :
           /\ Finish("get_pixel_color", [x |-> x, y |-> y], o,
                     IF o.out = "ok"
                     THEN Returned([x |-> x, y |-> y, r |-> o.val[1], g |-> o.val[2], b |-> o.val[3],
                                    hex |-> HexFormat(o.val, HexLower)])
                     ELSE ExceptPyAutoGUI(o))
           /\ UNCHANGED files

\* `except Exception as e:` of pixel_matches_color
color_failure(color, text) == Returned([error |-> <<"Failed to process color", color, text>>])

pixel_matches_color ==
    /\ pc = "running"
    /\ \E x \in {7}, y \in {0}, color \in ColorStrings, tolerance \in Tolerances :
           LET a == [x |-> x, y |-> y, color |-> color, tolerance |-> tolerance]
               p == parse_color(color)
           IN  IF ~p.ok
               THEN /\ Finish("pixel_matches_color", a, [out |-> "none", queried |-> FALSE],
                              color_failure(color, p.text))
                    /\ UNCHANGED files
               ELSE \/ \E pix \in Pixels :
                          /\ Finish("pixel_matches_color", a,
                                    [out |-> "ok", queried |-> TRUE, pix |-> pix, rgb |-> p.rgb],
                                    Returned([x |-> x, y |-> y, color |-> color,
                                              matches |-> pixelMatchesColor(pix, p.rgb, tolerance)]))
                          /\ UNCHANGED files
                    \/ \E o \in {Exc("PyAutoGUIException"), Exc("OSError")} :
                          /\ Finish("pixel_matches_color", a,
                                    [out |-> "exc", queried |-> TRUE, backend |-> o, rgb |-> p.rgb],
                                    color_failure(color, o.text))
                          /\ UNCHANGED files

\* ------------------------------------------------------------------------
\* Window management
\* ------------------------------------------------------------------------
MaxWindows == 3

get_screen_size ==
    /\ pc = "running"
    /\ \E o \in Outcomes({<<1920, 1080>>}) :
           /\ Finish("get_screen_size", <<>>, o,
                     IF o.out = "ok"
                     THEN Returned([width |-> o.val[1], height |-> o.val[2]])
                     ELSE ExceptPyAutoGUI(o))
           /\ UNCHANGED files

\* Python truthiness of an Optional[str]
Truthy(v) == v # None /\ v[1] # ""

get_active_window_title ==
    /\ pc = "running"
    /\ \E o \in Outcomes({None, Some(""), Some("Editor")}) :
           /\ Finish("get_active_window_title", <<>>, o,
                     IF o.out = "ok"
                     THEN Returned([title |-> IF Truthy(o.val) THEN o.val[1] ELSE "None"])
                     ELSE IF o.exc \in PyAutoGUIExceptionClasses
                     THEN Returned([title |-> None, error |-> o.text])
                     ELSE Raised(o))
           /\ UNCHANGED files

\* The windows of the desktop, in enumeration order
AllWindows == <<
    [title |-> <<"a", "b">>, left |-> 0, top |-> 0, width |-> 8, height |-> 6],
    [title |-> <<"b">>, left |-> 1, top |-> 1, width |-> 4, height |-> 3],
    [title |-> <<"a", "b", "a">>, left |-> 2, top |-> 0, width |-> 5, height |-> 5],
    [title |-> <<>>, left |-> 3, top |-> 3, width |-> 1, height |-> 1],
    [title |-> <<"b", "b">>, left |-> 4, top |-> 2, width |-> 2, height |-> 2] >>

Desktops == {SubSeq(AllWindows, 1, n) : n \in 0..MaxWindows}
Fragments == {<<>>, <<"a">>, <<"b", "a">>, <<"a", "a">>, <<"c">>}

Contains(title, fragment) ==
    \E i \in 0..(Len(title) - Len(fragment)) : SubSeq(title, i + 1, i + Len(fragment)) = fragment

\* pyautogui.getWindowsWithTitle: substring lookup over the desktop's windows
getWindowsWithTitle(desktop, fragment) == SelectSeq(desktop, LAMBDA w : Contains(w.title, fragment))

get_all_window_titles ==
    /\ pc = "running"
    /\ \E desktop \in Desktops :
       \E o \in Outcomes({[i \in 1..Len(desktop) |-> desktop[i].title]}) :
           /\ Finish("get_all_window_titles", <<>>, [out |-> o.out, backend |-> o, desktop |-> desktop],
                     IF o.out = "ok"
                     THEN Returned([titles |-> o.val, count |-> Len(o.val)])
                     ELSE IF o.exc \in PyAutoGUIExceptionClasses
                     THEN Returned([titles |-> <<>>, count |-> 0, error |-> o.text])
                     ELSE Raised(o))
           /\ UNCHANGED files

\* windows_envelope that reports only the first window of the backend's list
windows_envelope_first(windows) ==
    LET res == [i \in 1..(IF Len(windows) > 1 THEN 1 ELSE Len(windows)) |->
                    [title |-> windows[i].title, left |-> windows[i].left, top |-> windows[i].top,
                     width |-> windows[i].width, height |-> windows[i].height]]
    IN  [windows |-> res, count |-> Len(res)]

\* The success envelope of get_windows_with_title for the backend's list
windows_envelope(windows) ==
    LET res == [i \in 1..Len(windows) |->
                    [title |-> windows[i].title, left |-> windows[i].left, top |-> windows[i].top,
                     width |-> windows[i].width, height |-> windows[i].height]]
    IN  [windows |-> res, count |-> Len(res)]

get_windows_with_title ==
    /\ pc = "running"
    /\ \E title_fragment \in Fragments, desktop \in Desktops :
       \E o \in Outcomes({getWindowsWithTitle(desktop, title_fragment)}) :
           /\ Finish("get_windows_with_title", [title_fragment |-> title_fragment],
                     [out |-> o.out, backend |-> o, desktop |-> desktop],
                     IF o.out = "ok"
                     THEN Returned(windows_envelope(o.val))
                     ELSE IF o.exc \in PyAutoGUIExceptionClasses
                     THEN Returned([windows |-> <<>>, count |-> 0, error |-> o.text])
                     ELSE Raised(o))
           /\ UNCHANGED files

\* ------------------------------------------------------------------------
\* User interaction tools
\* ------------------------------------------------------------------------
Messages == {"Enter value", "hunter2"}
Titles == {"Password", "Dialog"}

alert ==
    /\ pc = "running"
    /\ \E message \in Messages, title \in Titles, o \in Outcomes({"OK"}) :
           /\ Finish("alert", [message |-> message, title |-> title], o,
                     IF o.out = "ok"
                     THEN Returned([message |-> message, title |-> title, result |-> o.val])
                     ELSE ExceptPyAutoGUI(o))
           /\ UNCHANGED files

confirm ==
    /\ pc = "running"
    /\ \E message \in Messages, title \in Titles, options \in {None, Some(<<>>), Some(<<"Yes", "No">>)} :
       \E o \in Outcomes({None} \cup
                         {Some(b) : b \in IF options # None /\ options[1] # <<>>
                                          THEN {options[1][i] : i \in 1..Len(options[1])}
                                          ELSE {"OK", "Cancel"}}) :
           /\ Finish("confirm", [message |-> message, title |-> title, options |-> options], o,
                     IF o.out = "ok"
                     THEN Returned([message |-> message, title |-> title,
                                    options |-> IF options # None /\ options[1] # <<>>
                                                THEN options[1] ELSE <<"OK", "Cancel">>,
                                    result |-> o.val])
                     ELSE ExceptPyAutoGUI(o))
           /\ UNCHANGED files

prompt ==
    /\ pc = "running"
    /\ \E message \in Messages, title \in Titles, default \in {"", "x"} :
       \E o \in Outcomes({None, Some(default), Some("typed")}) :
           /\ Finish("prompt", [message |-> message, title |-> title, default |-> default], o,
                     IF o.out = "ok"
                     THEN Returned([message |-> message, title |-> title, default |-> default,
                                    result |-> o.val])
                     ELSE ExceptPyAutoGUI(o))
           /\ UNCHANGED files

REDACTED == "[REDACTED]"

\* What the user can enter in the password dialog; None when it is cancelled
Secrets == {None, Some(""), Some("hunter2"), Some("Password"), Some("*"), Some(REDACTED)}
Masks == {"*", "#"}

\* password_envelope that hands the dialog's return value through
password_envelope_leaky(message, title, mask, res) ==
    [message |-> message, title |-> title, mask |-> mask, result |-> res]

\* The success envelope of password for the backend's return value
password_envelope(message, title, mask, res) ==
    [message |-> message, title |-> title, mask |-> mask,
     result |-> IF Truthy(res) THEN Some(REDACTED) ELSE None]

password ==
    /\ pc = "running"
    /\ \E message \in Messages, title \in Titles, mask \in Masks, o \in Outcomes(Secrets) :
           /\ Finish("password", [message |-> message, title |-> title, mask |-> mask], o,
                     IF o.out = "ok"
                     THEN Returned(password_envelope(message, title, mask, o.val))
                     ELSE ExceptPyAutoGUI(o))
           /\ UNCHANGED files

\* ------------------------------------------------------------------------
\* Utility tools
\* ------------------------------------------------------------------------
Seconds == {0, 5}

countdown ==
    /\ pc = "running"
    /\ \E seconds \in Seconds, o \in Outcomes({None}) :
           /\ Finish("countdown", [seconds |-> seconds], o,
                     IF o.out = "ok"
                     THEN Returned([seconds |-> seconds, message |-> <<"Countdown completed for", seconds>>])
                     ELSE ExceptPyAutoGUI(o))
           /\ UNCHANGED files

display_mouse_position ==
    /\ pc = "running"
    /\ \E seconds \in Seconds, o \in Outcomes({None}) :
           /\ Finish("display_mouse_position", [seconds |-> seconds], o,
                     IF o.out = "ok"
                     THEN Returned([seconds |-> seconds, message |-> <<"Mouse position displayed for", seconds>>])
                     ELSE ExceptPyAutoGUI(o))
           /\ UNCHANGED files

fail_safe_check ==
    /\ pc = "running"
    /\ Finish("fail_safe_check", <<>>, [out |-> "none"],
              Returned([enabled |-> FAILSAFE,
                        message |-> IF FAILSAFE THEN <<"Failsafe enabled">> ELSE <<"Failsafe disabled">>]))
    /\ UNCHANGED files

\* The framework hands the result back to the caller and waits for the next
\* call.
NextCall ==
    /\ pc = "returned"
    /\ pc' = "idle"
    /\ call' = [tool |-> "none"]
    /\ world' = [out |-> "none"]
    /\ result' = [kind |-> "none"]
    /\ UNCHANGED <<files, cv2, FAILSAFE, PAUSE, inbox, active>>

Next ==
    \/ move_mouse \/ move_mouse_relative \/ click \/ double_click \/ right_click
    \/ drag_to \/ drag_relative \/ scroll \/ get_mouse_position
    \/ type_text \/ press_key \/ key_down \/ key_up \/ hotkey
    \/ screenshot \/ locate_on_screen \/ locate_center_on_screen
    \/ get_pixel_color \/ pixel_matches_color
    \/ get_screen_size \/ get_active_window_title \/ get_all_window_titles \/ get_windows_with_title
    \/ alert \/ confirm \/ prompt \/ password
    \/ countdown \/ display_mouse_position \/ fail_safe_check
    \/ Receive \/ Dispatch \/ NextCall

Spec == Init /\ [][Next]_vars

\* ------------------------------------------------------------------------
\* Properties
\* ------------------------------------------------------------------------
ReturnedFrom(tools) == pc = "returned" /\ call.tool \in tools
HasEnvelope == result.kind = "envelope"
EnvKeys == DOMAIN result.env
LocateTools == {"locate_on_screen", "locate_center_on_screen"}

\* C1: every envelope a tool returns holds either a result (a message or
\* result fields) or an `error` key: never both and never neither.
C1_ExactlyOneOfResultOrError ==
    (pc = "returned" /\ HasEnvelope) =>
        (("error" \in EnvKeys) # (EnvKeys \ {"error"} # {}))

\* C2: every failure raised while a tool runs is caught at the tool boundary
\* and returned as an envelope with an `error` field; no exception leaves
\* the tool call.
C2_FailuresCaughtAtBoundary ==
    (pc = "returned" /\ world.out = "exc") => (HasEnvelope /\ "error" \in EnvKeys)

\* C3: for every caller-supplied file name, the path screenshot resolves and
\* saves to is a direct child of the screenshots directory, every file
\* written is such a child, and the returned `filename` is that path.
C3_SavesOnlyUnderScreenshots ==
    /\ \A p \in files : DirectChildOfScreenshots(p)
    /\ (ReturnedFrom({"screenshot"}) /\ world.saveTarget # None) =>
           /\ DirectChildOfScreenshots(world.saveTarget[1])
           /\ (HasEnvelope /\ "filename" \in EnvKeys) => result.env.filename = world.saveTarget[1]

\* C4: the envelope of password carries nothing of the entered secret: on
\* success its fields are the echoed message, title and mask arguments and a
\* `result` that is the redaction marker exactly when input was provided
\* (None otherwise); on failure it is the backend's diagnostic alone.
C4_SecretNeverInEnvelope ==
    (ReturnedFrom({"password"}) /\ HasEnvelope) =>
        IF world.out = "ok"
        THEN /\ EnvKeys = {"message", "title", "mask", "result"}
             /\ \A k \in {"message", "title", "mask"} : result.env[k] = call.args[k]
             /\ result.env.result = (IF world.val # None /\ world.val[1] # "" THEN Some(REDACTED) ELSE None)
        ELSE result.env = [error |-> world.text]

\* C4 witness: the user entered the secret hunter2 and the call returned the
\* marker.
C4_Witness ==
    /\ ReturnedFrom({"password"})
    /\ world.out = "ok"
    /\ world.val = Some("hunter2")
    /\ call.args.message = "Enter value"
    /\ HasEnvelope
    /\ result.env.result = Some(REDACTED)

AbsenceSignalled ==
    /\ ~world.present
    /\ \/ world.backend.out = "ok"
       \/ world.backend.out = "exc" /\ world.backend.exc = "ImageNotFoundException"

\* C5: when the image is absent, however the backend signals it (an empty
\* value or its image-not-found exception), the locate tools return `found`
\* false and no `error` key.
C5_AbsentImageIsNotAnError ==
    (ReturnedFrom(LocateTools) /\ AbsenceSignalled) =>
        (HasEnvelope /\ result.env.found = FALSE /\ "error" \notin EnvKeys)

IsStrictHexColor(c) == Len(c) = 7 /\ c[1] = "#" /\ \A i \in 2..7 : IsHexDigit(c[i])

IsByteText(s) ==
    LET d == Strip(s, {" "}) IN
    /\ d # <<>>
    /\ \A i \in 1..Len(d) : IsDecDigit(d[i])
    /\ DigitsValue(d, 10, 0) \in 0..255

IsStrictTupleColor(c) ==
    /\ Len(c) >= 2
    /\ c[1] = "("
    /\ c[Len(c)] = ")"
    /\ LET parts == Split(SubSeq(c, 2, Len(c) - 1), ",") IN
       Len(parts) = 3 /\ \A i \in 1..3 : IsByteText(parts[i])

\* C6: pixel_matches_color accepts only #RRGGBB (one # and six hex digits)
\* and (r, g, b) with three integers in [0,255]; every other string yields an
\* `error` envelope without `matches`, and the backend is not queried.
C6_OnlyTwoFormatsAccepted ==
    (ReturnedFrom({"pixel_matches_color"})
        /\ ~IsStrictHexColor(call.args.color) /\ ~IsStrictTupleColor(call.args.color)) =>
            (HasEnvelope /\ "error" \in EnvKeys /\ "matches" \notin EnvKeys /\ ~world.queried)

\* C7: without the image-matching backend the locate tools still work by
\* exact match: a call with the default confidence on an image that is on
\* the screen (and can be read) returns `found` true and no `error`.
C7_DegradesToExactMatch ==
    (ReturnedFrom(LocateTools) /\ ~cv2 /\ world.present
        /\ call.args.confidence = DefaultConfidence
        /\ ~(world.backend.out = "exc" /\ world.backend.exc = "OSError")) =>
            (HasEnvelope /\ result.env.found = TRUE /\ "error" \notin EnvKeys)

Matching(desktop, fragment) == {j \in 1..Len(desktop) : Contains(desktop[j].title, fragment)}

ExactlyTheMatching(windows, desktop, fragment) ==
    /\ \A i \in 1..Len(windows) : \E j \in Matching(desktop, fragment) : windows[i] = desktop[j]
    /\ \A j \in Matching(desktop, fragment) : \E i \in 1..Len(windows) : windows[i] = desktop[j]
    /\ Len(windows) = Cardinality(Matching(desktop, fragment))

WithinTolerance(pix, t, tolerance) ==
    /\ pix[1] - t[1] <= tolerance /\ t[1] - pix[1] <= tolerance
    /\ pix[2] - t[2] <= tolerance /\ t[2] - pix[2] <= tolerance
    /\ pix[3] - t[3] <= tolerance /\ t[3] - pix[3] <= tolerance

\* C9: for a well-formed color string denoting the triple t and a tolerance
\* >= 0, pixel_matches_color answers (when the backend answers) `matches`
\* true exactly when every channel of the pixel is within the tolerance of
\* the same channel of t; with #FF0000 and tolerance 0 only (255, 0, 0)
\* matches.
C9_MatchesWithinTolerancePerChannel ==
    (ReturnedFrom({"pixel_matches_color"}) /\ world.out = "ok") =>
        \A t \in ColorTriples :
            call.args.color \in {HexFormat(t, HexUpper), HexFormat(t, HexLower), TupleFormat(t)} =>
                /\ HasEnvelope
                /\ "matches" \in EnvKeys
                /\ "error" \notin EnvKeys
                /\ result.env.matches = WithinTolerance(world.pix, t, call.args.tolerance)

\* C9 witness: #FF00FF with tolerance 10 against the pixel (255, 10, 255)
C9_Witness ==
    /\ ReturnedFrom({"pixel_matches_color"})
    /\ world.out = "ok"
    /\ call.args.color = <<"#", "F", "F", "0", "0", "F", "F">>
    /\ call.args.tolerance = 10
    /\ world.pix = <<255, 10, 255>>
    /\ HasEnvelope
    /\ result.env.matches = TRUE

\* C10: an envelope that carries `error` carries no success field beside it
\* (no placeholder titles/windows/count/title/found/message).
C10_NoFabricatedSuccessFields ==
    (pc = "returned" /\ HasEnvelope /\ "error" \in EnvKeys) => EnvKeys = {"error"}

DrivingTools ==
    {"move_mouse", "move_mouse_relative", "click", "double_click", "right_click", "drag_to",
     "drag_relative", "scroll", "type_text", "press_key", "key_down", "key_up", "hotkey"}

\* The backend aborted the primitive of a mouse or keyboard tool with its
\* failsafe exception.
FailsafeTripped ==
    /\ ReturnedFrom(DrivingTools)
    /\ world.out = "exc"
    /\ world.exc = "FailSafeException"

\* C11: a failsafe abort during a mouse or keyboard tool is returned as the
\* `error` envelope of that call alone (the primitive's failure is neither
\* retried nor turned into a success); the gateway can then go on to the
\* next call, which it takes up in the same state as any other call, with
\* the failsafe flag still enabled.
C11_FailsafeReportedThenServing ==
    /\ [](FailsafeTripped =>
            /\ HasEnvelope
            /\ result.env = [error |-> world.text]
            /\ FAILSAFE = TRUE
            /\ ENABLED NextCall)
    /\ [][FailsafeTripped =>
            /\ FAILSAFE' = TRUE
            /\ \/ UNCHANGED <<pc, call, world, result>>
               \/ /\ pc' = "idle"
                  /\ call' = [tool |-> "none"]
                  /\ world' = [out |-> "none"]
                  /\ result' = [kind |-> "none"]
                  /\ UNCHANGED <<files, cv2, PAUSE>>]_vars

\* C11 witness: drag_to was aborted by the failsafe and returned `error`
C11_Witness ==
    /\ FailsafeTripped
    /\ call.tool = "drag_to"
    /\ HasEnvelope
    /\ EnvKeys = {"error"}
    /\ FAILSAFE = TRUE

====
